---- MODULE Spec2Model ----
(***************************************************************************)
(* Deployment creation and deployment execution of fabric-bolt             *)
(* (fabric_bolt/projects/views.py): DeploymentCreate and                   *)
(* DeploymentOutputStream, with the task catalog (get_fabric_tasks), the   *)
(* Task / Deployment tables, the stage and project configurations and the  *)
(* per-session store of prompted values they share.                        *)
(*                                                                         *)
(* Every HTTP request is a process.  A request handler is cut at each      *)
(* database / session access and at each `yield`, which are the points     *)
(* where handlers of other requests (other workers) can interleave.        *)
(***************************************************************************)
EXTENDS Integers, Sequences, FiniteSets, TLC

\* ---------------------------------------------------------------- bounds
MaxCreates == 2      \* DeploymentCreate requests
MaxStreams == 1      \* DeploymentOutputStream requests
MaxEdits   == 1      \* operator edits (fabfile, configuration, hosts) during a run
MaxUpserts == 3      \* DeploymentCreate requests where only creations run
MaxStrLen  == 2      \* characters of a string configuration value

CreateReqs == 1..MaxCreates
UpsertReqs == 1..MaxUpserts
AllCreates == CreateReqs \cup UpsertReqs
StreamReqs == 1..MaxStreams

TaskNames    == {"deploy", "update"}
Keys         == {"branch"}
PromptValues == {"u1", "u2"}
Sessions     == {"s1"}
Hosts        == {"h1"}

None == "None"

\* ------------------------------------------------------- python helpers
\* {} : the dict with no keys
EmptyDict == [k \in {} |-> None]

\* dict.update(other): keys of `other` replace those of `d`
dict_update_first_wins(d, other) ==
    [k \in (DOMAIN d) \cup (DOMAIN other) |->
        IF k \in DOMAIN d THEN d[k] ELSE other[k]]

dict_update(d, other) ==
    [k \in (DOMAIN d) \cup (DOMAIN other) |->
        IF k \in DOMAIN other THEN other[k] ELSE d[k]]

\* ---------------------------------------------------------------- state
VARIABLES
    fabfile,        \* the task-runner file: the names of the tasks it defines
    project_conf,   \* Configuration rows owned by the project: key -> row
    stage_conf,     \* Configuration rows owned by the stage:   key -> row
    stage_hosts,    \* Stage.hosts
    edits,          \* operator edits made so far
    tasks,          \* Task table: name -> row
    deployments,    \* Deployment table: sequence of rows, pk = index; a row
                    \* also remembers the session and the prompted values
                    \* of the request that created it
    session,        \* request.session['configuration_values'] per session
    cpc,            \* DeploymentCreate request: position in the handler
    cself,          \* DeploymentCreate request: the view's attributes
    writes,         \* DeploymentCreate request: number of writes it made
                    \* (Task, Deployment, session)
    spc,            \* DeploymentOutputStream request: position
    sself,          \* DeploymentOutputStream request: the view's attributes
    chunks,         \* DeploymentOutputStream request: chunks yielded so far
    spawned,        \* subprocess.Popen calls made per deployment pk
    call            \* a function of the views applied on its own: its
                    \* arguments and, once it has returned, its results

envVars    == <<fabfile, project_conf, stage_conf, stage_hosts, edits, call>>
dbVars     == <<tasks, deployments, session>>
createVars == <<cpc, cself, writes>>
streamVars == <<spc, sself, chunks, spawned>>
vars == <<fabfile, project_conf, stage_conf, stage_hosts, edits,
          tasks, deployments, session, cpc, cself, writes,
          spc, sself, chunks, spawned, call>>

\* Deployment.status choices
PENDING == "PENDING"
SUCCESS == "SUCCESS"
FAILED  == "FAILED"

\* Task.times_used of a freshly created Task
TimesUsedDefault == 1

\* --------------------------------------------------------- task catalog
\* get_fabric_tasks: the name -> description mapping parsed from `fab --list`,
\* or {} when anything raised (ok = FALSE).
Docstring(t) == <<"doc", t>>

get_fabric_tasks(ok) ==
    IF ok
    THEN [t \in fabfile |-> Docstring(t)]
    ELSE EmptyDict

\* ------------------------------------------------------- configurations
ConfRow(v, p) == [present |-> TRUE, value |-> v, prompt_me_for_input |-> p]
NoConf == [present |-> FALSE, value |-> None, prompt_me_for_input |-> FALSE]

TaskRow(n, d) == [present |-> TRUE, times_used |-> n, description |-> d]
NoTask == [present |-> FALSE, times_used |-> 0, description |-> << >>]

\* Stage.get_queryset_configurations(prompt_me_for_input=True): keys to prompt for
prompt_keys == {k \in Keys : stage_conf[k].present /\ stage_conf[k].prompt_me_for_input}

\* Stage.get_configurations(): project rows overridden by stage rows of the
\* same key, rows flagged prompt_me_for_input left out
get_configurations ==
    LET proj == [k \in {x \in Keys : project_conf[x].present
                                     /\ ~project_conf[x].prompt_me_for_input}
                    |-> project_conf[k].value]
        stg  == [k \in {x \in Keys : stage_conf[x].present
                                     /\ ~stage_conf[x].prompt_me_for_input}
                    |-> stage_conf[k].value]
    IN dict_update(proj, stg)

\* ----------------------------------------------------------------- Init
NoSelf == [task_name |-> None, task_description |-> << >>, session |-> None,
           cleaned_data |-> EmptyDict, times_used |-> 0, pk |-> 0]

NoStream == [pk |-> 0, task |-> None, session |-> None, path |-> None,
             merged |-> FALSE, config |-> EmptyDict]

NoCall == [fn |-> None]

Init ==
    /\ fabfile = TaskNames
    /\ project_conf = [k \in Keys |-> ConfRow("p", FALSE)]
    /\ stage_conf \in [Keys -> {NoConf, ConfRow("s", FALSE), ConfRow("s", TRUE)}]
    /\ stage_hosts = {}
    /\ edits = 0
    /\ tasks = [t \in TaskNames |-> NoTask]
    /\ deployments = << >>
    /\ session = [s \in Sessions |-> [set |-> FALSE, values |-> EmptyDict]]
    /\ cpc = [c \in AllCreates |-> "idle"]
    /\ cself = [c \in AllCreates |-> NoSelf]
    /\ writes = [c \in AllCreates |-> 0]
    /\ spc = [r \in StreamReqs |-> "idle"]
    /\ sself = [r \in StreamReqs |-> NoStream]
    /\ chunks = [r \in StreamReqs |-> << >>]
    /\ spawned = [d \in AllCreates |-> 0]
    /\ call = NoCall

\* ------------------------------------------------------ operator edits
\* The fabfile is edited outside the application: a task is removed or added.
EditFabfile ==
    /\ edits < MaxEdits
    /\ \E t \in TaskNames :
         fabfile' = IF t \in fabfile THEN fabfile \ {t} ELSE fabfile \cup {t}
    /\ edits' = edits + 1
    /\ UNCHANGED <<project_conf, stage_conf, stage_hosts, call>>
    /\ UNCHANGED <<dbVars, createVars, streamVars>>

\* ProjectConfigurationUpdate: an admin changes prompt_me_for_input of a
\* stage configuration
ProjectConfigurationUpdate ==
    /\ edits < MaxEdits
    /\ \E k \in Keys :
         /\ stage_conf[k].present
         /\ stage_conf' = [stage_conf EXCEPT ![k] =
                ConfRow(@.value, ~@.prompt_me_for_input)]
    /\ edits' = edits + 1
    /\ UNCHANGED <<fabfile, project_conf, stage_hosts, call>>
    /\ UNCHANGED <<dbVars, createVars, streamVars>>

\* ProjectStageMapHost.get / ProjectStageUnmapHost.get: stage.hosts.add / remove
ProjectStageMapHost ==
    /\ edits < MaxEdits
    /\ \E h \in Hosts :
         stage_hosts' = IF h \in stage_hosts THEN stage_hosts \ {h}
                                              ELSE stage_hosts \cup {h}
    /\ edits' = edits + 1
    /\ UNCHANGED <<fabfile, project_conf, stage_conf, call>>
    /\ UNCHANGED <<dbVars, createVars, streamVars>>

\* ------------------------------------------------- DeploymentCreate
\* Requests are numbered in order of arrival.
CreateArrives(c) ==
    /\ cpc[c] = "idle"
    /\ \A b \in AllCreates : b < c => cpc[b] # "idle"

\* dispatch as it would be if the prompted values were stored in the session
\* before the form is validated
dispatch_stores_before_validation(c) ==
    /\ CreateArrives(c)
    /\ \E task_name \in TaskNames, s \in Sessions, ok \in BOOLEAN,
          submitted \in [prompt_keys -> PromptValues \cup {None}] :
         LET all_tasks == get_fabric_tasks(ok) IN
         IF task_name \notin DOMAIN all_tasks
         THEN /\ cpc' = [cpc EXCEPT ![c] = "redirected"]
              /\ UNCHANGED <<cself, writes, session>>
         ELSE IF \E k \in prompt_keys : submitted[k] = None
         THEN /\ cpc' = [cpc EXCEPT ![c] = "form_invalid"]
              /\ session' = [session EXCEPT ![s] =
                    [set |-> TRUE, values |-> submitted]]
              /\ writes' = [writes EXCEPT ![c] = @ + 1]
              /\ UNCHANGED cself
         ELSE /\ cpc' = [cpc EXCEPT ![c] = "get_or_create"]
              /\ cself' = [cself EXCEPT ![c] =
                    [@ EXCEPT !.task_name = task_name,
                              !.task_description = all_tasks[task_name],
                              !.session = s,
                              !.cleaned_data = submitted]]
              /\ UNCHANGED <<writes, session>>
    /\ UNCHANGED <<envVars, tasks, deployments, streamVars>>

\* DeploymentCreate.dispatch, and the POST it dispatches to (get_form and the
\* form's validation) up to the call of form_valid.  The task must be in a
\* fresh catalog; the form has one required field per configuration flagged
\* prompt_me_for_input, and a missing value makes it invalid.  Both
\* rejections return before form_valid is called.
dispatch(c) ==
    /\ CreateArrives(c)
    /\ \E task_name \in TaskNames, s \in Sessions, ok \in BOOLEAN,
          submitted \in [prompt_keys -> PromptValues \cup {None}] :
         LET all_tasks == get_fabric_tasks(ok) IN
         IF task_name \notin DOMAIN all_tasks
         THEN /\ cpc' = [cpc EXCEPT ![c] = "redirected"]
              /\ UNCHANGED cself
         ELSE IF \E k \in prompt_keys : submitted[k] = None
         THEN /\ cpc' = [cpc EXCEPT ![c] = "form_invalid"]
              /\ UNCHANGED cself
         ELSE /\ cpc' = [cpc EXCEPT ![c] = "get_or_create"]
              /\ cself' = [cself EXCEPT ![c] =
                    [@ EXCEPT !.task_name = task_name,
                              !.task_description = all_tasks[task_name],
                              !.session = s,
                              !.cleaned_data = submitted]]
    /\ UNCHANGED <<writes, envVars, dbVars, streamVars>>

\* form_valid: Task.objects.get_or_create(name=..., defaults={'description': ...}),
\* one database access: either the row is inserted, or the existing row is
\* loaded into self.object.task
form_valid_get_or_create(c) ==
    /\ cpc[c] = "get_or_create"
    /\ LET name == cself[c].task_name IN
       IF ~tasks[name].present
       THEN /\ tasks' = [tasks EXCEPT ![name] =
                  TaskRow(TimesUsedDefault, cself[c].task_description)]
            /\ writes' = [writes EXCEPT ![c] = @ + 1]
            /\ cpc' = [cpc EXCEPT ![c] = "save_deployment"]
            /\ UNCHANGED cself
       ELSE /\ cself' = [cself EXCEPT ![c].times_used = tasks[name].times_used]
            /\ cpc' = [cpc EXCEPT ![c] = "save_task"]
            /\ UNCHANGED <<tasks, writes>>
    /\ UNCHANGED <<deployments, session, envVars, streamVars>>

\* form_valid, `if not created`: times_used += 1 on the instance that was
\* loaded, description refreshed, task.save()
task_save(c) ==
    TaskRow(cself[c].times_used + 1, cself[c].task_description)

form_valid_save_task(c) ==
    /\ cpc[c] = "save_task"
    /\ tasks' = [tasks EXCEPT ![cself[c].task_name] = task_save(c)]
    /\ writes' = [writes EXCEPT ![c] = @ + 1]
    /\ cpc' = [cpc EXCEPT ![c] = "save_deployment"]
    /\ UNCHANGED <<cself, deployments, session, envVars, streamVars>>

\* form_valid: self.object.save() inserts the Deployment, status PENDING,
\* output NULL
form_valid_save_deployment(c) ==
    /\ cpc[c] = "save_deployment"
    /\ deployments' = Append(deployments,
          [task |-> cself[c].task_name, status |-> PENDING,
           output |-> [null |-> TRUE, text |-> << >>],
           session |-> cself[c].session,
           prompted |-> cself[c].cleaned_data])
    /\ cself' = [cself EXCEPT ![c].pk = Len(deployments) + 1]
    /\ writes' = [writes EXCEPT ![c] = @ + 1]
    /\ cpc' = [cpc EXCEPT ![c] = "set_session"]
    /\ UNCHANGED <<tasks, session, envVars, streamVars>>

\* form_valid: request.session['configuration_values'] = configuration_values
form_valid_set_session(c) ==
    /\ cpc[c] = "set_session"
    /\ session' = [session EXCEPT ![cself[c].session] =
          [set |-> TRUE, values |-> cself[c].cleaned_data]]
    /\ writes' = [writes EXCEPT ![c] = @ + 1]
    /\ cpc' = [cpc EXCEPT ![c] = "done"]
    /\ cself' = [cself EXCEPT ![c] = NoSelf]
    /\ UNCHANGED <<tasks, deployments, envVars, streamVars>>

\* ------------------------------------------- DeploymentOutputStream
\* The special options, keyed by their underscore form (command_to_config)
fabric_special_options ==
    {"no_agent", "forward-agent", "config", "disable-known-hosts", "keepalive",
     "password", "parallel", "no-pty", "reject-unknown-hosts", "skip-bad-hosts",
     "timeout", "command-timeout", "user", "warn-only", "pool-size"}

underscored(x) ==
    CASE x = "forward-agent" -> "forward_agent"
      [] x = "disable-known-hosts" -> "disable_known_hosts"
      [] x = "no-pty" -> "no_pty"
      [] x = "reject-unknown-hosts" -> "reject_unknown_hosts"
      [] x = "skip-bad-hosts" -> "skip_bad_hosts"
      [] x = "command-timeout" -> "command_timeout"
      [] x = "warn-only" -> "warn_only"
      [] x = "pool-size" -> "pool_size"
      [] OTHER -> x

command_to_config_keys == {underscored(x) : x \in fabric_special_options}

\* A python value is tagged with its type.  obj.append(x) extends a list; a
\* str has no attribute `append`, and the attribute lookup raises
\* AttributeError.
PyStr(parts) == [type |-> "str", items |-> parts]
PyList(parts) == [type |-> "list", items |-> parts]

Running(command, config, merged) ==
    [raised |-> FALSE, line |-> 0, command |-> command, config |-> config,
     merged |-> merged]

\* command.append(arg) at `line`, executed when `cond` holds and nothing has
\* been raised so far
append(st, line, cond, arg) ==
    IF st.raised \/ ~cond THEN st
    ELSE IF st.command.type = "list"
    THEN [st EXCEPT !.command = PyList(Append(st.command.items, arg))]
    ELSE [st EXCEPT !.raised = TRUE, !.line = line]

\* Configuration values as build_command gets them: a bool (BooleanField), a
\* float (FloatField) or a string (CharField).  A float is whole + tenths/10;
\* a string is the sequence of its characters.
PyBool(b) == [type |-> "bool", value |-> b]
PyFloat(w, t) == [type |-> "float", whole |-> w, tenths |-> t]

DigitChars == <<"0", "1", "2", "3", "4", "5", "6", "7", "8", "9">>

RECURSIVE Digits(_)
Digits(n) ==
    IF n < 10 THEN <<DigitChars[n + 1]>>
    ELSE Digits(n \div 10) \o <<DigitChars[(n % 10) + 1]>>

\* str(value) of a float: "30.5", "7.0"
str_float(value) == Digits(value.whole) \o <<".">> \o Digits(value.tenths)

\* value.replace('"', '\\"')
RECURSIVE replace_quotes(_)
replace_quotes(chars) ==
    IF chars = << >> THEN << >>
    ELSE (IF Head(chars) = "\"" THEN <<"\\", "\"">> ELSE <<Head(chars)>>)
            \o replace_quotes(Tail(chars))

\* get_key_value_string as it would be without the replace: '{}={}'.format(key, value)
get_key_value_string_unescaped(key, value) ==
    IF value.type = "bool"
    THEN [raised |-> FALSE, text |-> IF value.value THEN <<key>> ELSE <<key, "=">>]
    ELSE IF value.type = "float"
    THEN [raised |-> FALSE, text |-> <<key, "=">> \o str_float(value)]
    ELSE IF value.type = "str"
    THEN [raised |-> FALSE, text |-> <<key, "=">> \o value.items]
    ELSE [raised |-> TRUE, text |-> << >>]

\* get_key_value_string (lines 386-392); the text is the key followed by the
\* characters after it.  Any value that is neither bool nor float is sent
\* .replace, which only a string has.
get_key_value_string(key, value) ==
    IF value.type = "bool"
    THEN [raised |-> FALSE, text |-> IF value.value THEN <<key>> ELSE <<key, "=">>]
    ELSE IF value.type = "float"
    THEN [raised |-> FALSE, text |-> <<key, "=">> \o str_float(value)]
    ELSE IF value.type = "str"
    THEN [raised |-> FALSE, text |-> <<key, "=">> \o replace_quotes(value.items)]
    ELSE [raised |-> TRUE, text |-> << >>]

\* lines 374-376: config = stage.get_configurations();
\* config.update(session.get('configuration_values', {}))
merge_session_first(s) ==
    dict_update_first_wins(get_configurations, session[s].values)

merge(s) ==
    dict_update(get_configurations, session[s].values)

\* command_to_config[key]: the option an underscore form stands for
command_to_config(key) == CHOOSE x \in fabric_special_options : underscored(x) = key

\* list(a set): its elements in some order; the orders a list of `keys` can have
Orders(keys) ==
    {q \in [1..Cardinality(keys) -> keys] : \A k \in keys : \E i \in DOMAIN q : q[i] = k}

\* ','.join(texts)
RECURSIVE join(_)
join(texts) ==
    IF texts = << >> THEN << >>
    ELSE IF Len(texts) = 1 THEN texts[1]
    ELSE texts[1] \o <<",">> \o join(Tail(texts))

\* build_command for a task, the hosts of the stage and the merged
\* configuration, `normal` and `special` being the orders list(set(...)) gives
\* at lines 381 and 384.  `command` is built with + from strings (lines
\* 365-367), so it is a str, and the first command.append(...) that is reached
\* raises: line 371 when the stage has hosts, else line 395 (normal options),
\* else line 400 (special options), else line 402.
command_from(task, hosts, config, normal, special) ==
    LET command == PyStr(<<<<"fab">>, <<"-f">>, <<"FABFILE_PATH">>, <<task>>,
                           <<"--abort-on-prompts">>>>)
        st371 == append(Running(command, EmptyDict, FALSE), 371,
                        hosts # {}, <<"--hosts=", hosts>>)
        st376 == IF st371.raised THEN st371
                 ELSE [st371 EXCEPT !.config = config, !.merged = TRUE]
        kv(key, name) == get_key_value_string(name, config[key])
        st395 == append(st376, 395, normal # << >>, <<"--set">>)
        st396 == IF st395.raised \/ normal = << >> THEN st395
                 ELSE IF \E i \in DOMAIN normal : kv(normal[i], normal[i]).raised
                 THEN [st395 EXCEPT !.raised = TRUE, !.line = 392]
                 ELSE append(st395, 396, TRUE,
                        join([i \in DOMAIN normal |-> kv(normal[i], normal[i]).text]))
        RECURSIVE each(_, _)
        each(st, i) ==
            IF st.raised \/ i > Len(special) THEN st
            ELSE LET one == kv(special[i], command_to_config(special[i])) IN
                 IF st.command.type = "list" /\ one.raised
                 THEN [st EXCEPT !.raised = TRUE, !.line = 392]
                 ELSE each(append(st, 400, TRUE, <<"--">> \o one.text), i + 1)
        st400 == each(st396, 1)
    IN  append(st400, 402, TRUE, <<"--fabfile=", "FABFILE_PATH">>)

\* A configuration value of the stage, the project or the session is a string.
Text(v) == PyStr(<<v>>)

\* build_command of a DeploymentOutputStream view: the hosts of the stage, the
\* configuration merged at lines 374-376 (computed only when line 371 did not
\* raise) and the option lists in the order `order` gives the keys.
build_command(task, s, order) ==
    LET merged == merge(s)
        normal_options == (DOMAIN merged) \ command_to_config_keys
        special_options == (DOMAIN merged) \cap command_to_config_keys
        built == command_from(task, stage_hosts,
                              [k \in DOMAIN merged |-> Text(merged[k])],
                              SelectSeq(order, LAMBDA k : k \in normal_options),
                              SelectSeq(order, LAMBDA k : k \in special_options))
    IN  [built EXCEPT !.config = IF built.merged THEN merged ELSE EmptyDict]

\* chunks of the streaming response
OutputChunk(text) == [id |-> "output", text |-> text]
FinishedChunk(text) == [id |-> "finished", text |-> text]
\* "An error occurred: " + e.message, e the AttributeError of command.append
ErrorMessage == <<"An error occurred: ", "object has no attribute 'append'">>

StreamArrives(r) ==
    /\ spc[r] = "idle"
    /\ \A b \in StreamReqs : b < r => spc[b] # "idle"

\* DeploymentOutputStream.get: get_object_or_404(Deployment, pk=..., status=PENDING);
\* the generator itself runs when the response is iterated.
get(r) ==
    /\ StreamArrives(r)
    /\ \E pk \in AllCreates, s \in Sessions :
         IF pk <= Len(deployments) /\ deployments[pk].status = PENDING
         THEN /\ spc' = [spc EXCEPT ![r] = "generator"]
              /\ sself' = [sself EXCEPT ![r] =
                    [NoStream EXCEPT !.pk = pk, !.task = deployments[pk].task,
                                     !.session = s]]
         ELSE /\ spc' = [spc EXCEPT ![r] = "not_found"]
              /\ UNCHANGED sself
    /\ UNCHANGED <<chunks, spawned, envVars, dbVars, createVars>>

\* output_stream_generator, lines 409-410: the task must be in a fresh catalog,
\* otherwise the generator returns and the response body ends.
output_stream_generator_check(r) ==
    /\ spc[r] = "generator"
    /\ \E ok \in BOOLEAN :
         IF sself[r].task \notin DOMAIN get_fabric_tasks(ok)
         THEN /\ spc' = [spc EXCEPT ![r] = "closed"]
              /\ sself' = [sself EXCEPT ![r].path = "return"]
         ELSE /\ spc' = [spc EXCEPT ![r] = "try"]
              /\ UNCHANGED sself
    /\ UNCHANGED <<chunks, spawned, envVars, dbVars, createVars>>

\* output_stream_generator, line 413 and the handler's first yield (434-435):
\* build_command() is evaluated before Popen is called; when it raises, the
\* except clause yields the message.  Lines 415-431 run only after Popen has
\* returned.
output_stream_generator_try(r) ==
    /\ spc[r] = "try"
    /\ \E order \in Orders(DOMAIN merge(sself[r].session)) :
       LET built == build_command(sself[r].task, sself[r].session, order) IN
       IF built.raised
       THEN /\ chunks' = [chunks EXCEPT ![r] = Append(@, OutputChunk(ErrorMessage))]
            /\ sself' = [sself EXCEPT ![r].path = "except",
                                      ![r].merged = built.merged,
                                      ![r].config = built.config]
            /\ spc' = [spc EXCEPT ![r] = "except"]
            /\ UNCHANGED spawned
       ELSE /\ spawned' = [spawned EXCEPT ![sself[r].pk] = @ + 1]
            /\ sself' = [sself EXCEPT ![r].path = "popen",
                                      ![r].merged = built.merged,
                                      ![r].config = built.config]
            /\ spc' = [spc EXCEPT ![r] = "readline"]
            /\ UNCHANGED chunks
    /\ UNCHANGED <<envVars, dbVars, createVars>>

\* output_stream_generator, line 436: the handler's second yield, after which
\* the generator is exhausted.  Nothing is saved.
output_stream_generator_except(r) ==
    /\ spc[r] = "except"
    /\ chunks' = [chunks EXCEPT ![r] = Append(@, FinishedChunk("failed"))]
    /\ sself' = [sself EXCEPT ![r].config = EmptyDict, ![r].merged = FALSE]
    /\ spc' = [spc EXCEPT ![r] = "closed"]
    /\ UNCHANGED <<spawned, envVars, dbVars, createVars>>

Next ==
    \/ EditFabfile
    \/ ProjectConfigurationUpdate
    \/ ProjectStageMapHost
    \/ \E c \in CreateReqs : dispatch(c)
    \/ \E c \in CreateReqs : form_valid_get_or_create(c)
    \/ \E c \in CreateReqs : form_valid_save_task(c)
    \/ \E c \in CreateReqs : form_valid_save_deployment(c)
    \/ \E c \in CreateReqs : form_valid_set_session(c)
    \/ \E r \in StreamReqs : get(r)
    \/ \E r \in StreamReqs : output_stream_generator_check(r)
    \/ \E r \in StreamReqs : output_stream_generator_try(r)
    \/ \E r \in StreamReqs : output_stream_generator_except(r)

Spec == Init /\ [][Next]_vars

NextUpsert ==
    \/ EditFabfile
    \/ ProjectConfigurationUpdate
    \/ ProjectStageMapHost
    \/ \E c \in UpsertReqs : dispatch(c)
    \/ \E c \in UpsertReqs : form_valid_get_or_create(c)
    \/ \E c \in UpsertReqs : form_valid_save_task(c)
    \/ \E c \in UpsertReqs : form_valid_save_deployment(c)
    \/ \E c \in UpsertReqs : form_valid_set_session(c)

\* Only deployment creations (and operator edits) run.
SpecUpsert == Init /\ [][NextUpsert]_vars

\* ---------------------------------------- functions applied on their own
\* The keys and values the functions are applied to
OptionKeys == {"branch", "dry_run", "timeout"}
Alphabet == {"m", "\"", "\\", ","}
Strings == UNION {[1..n -> Alphabet] : n \in 0..MaxStrLen}
Floats == {PyFloat(w, t) : w \in {0, 7, 30}, t \in {0, 5}}
OptionValues == {PyBool(b) : b \in BOOLEAN} \cup Floats \cup {PyStr(x) : x \in Strings}

\* No request is being served.
InitIdle ==
    /\ fabfile = TaskNames
    /\ project_conf = [k \in Keys |-> ConfRow("p", FALSE)]
    /\ stage_conf = [k \in Keys |-> NoConf]
    /\ stage_hosts = {}
    /\ edits = 0
    /\ tasks = [t \in TaskNames |-> NoTask]
    /\ deployments = << >>
    /\ session = [s \in Sessions |-> [set |-> FALSE, values |-> EmptyDict]]
    /\ cpc = [c \in AllCreates |-> "idle"]
    /\ cself = [c \in AllCreates |-> NoSelf]
    /\ writes = [c \in AllCreates |-> 0]
    /\ spc = [r \in StreamReqs |-> "idle"]
    /\ sself = [r \in StreamReqs |-> NoStream]
    /\ chunks = [r \in StreamReqs |-> << >>]
    /\ spawned = [d \in AllCreates |-> 0]

unitVars == <<fabfile, project_conf, stage_conf, stage_hosts, edits,
              tasks, deployments, session, cpc, cself, writes,
              spc, sself, chunks, spawned>>

\* get_key_value_string applied to one key and one value
InitKeyValue ==
    /\ InitIdle
    /\ \E key \in OptionKeys, value \in OptionValues :
         call = [fn |-> "get_key_value_string", key |-> key, value |-> value,
                 results |-> << >>]

ApplyKeyValue ==
    /\ call.fn = "get_key_value_string"
    /\ call.results = << >>
    /\ call' = [call EXCEPT !.results =
                   <<get_key_value_string(call.key, call.value)>>]
    /\ UNCHANGED unitVars

SpecKeyValue == InitKeyValue /\ [][ApplyKeyValue]_vars

\* build_command applied twice to one task, one set of hosts and one merged
\* configuration
BuildValues == {PyBool(TRUE), PyBool(FALSE), PyFloat(30, 5),
                PyStr(<<"m", "a", "i", "n">>), PyStr(<<"m", "\"">>)}
BuildConfigs == UNION {[S -> BuildValues] : S \in SUBSET OptionKeys}

InitBuild ==
    /\ InitIdle
    /\ \E task \in TaskNames, hosts \in SUBSET Hosts, config \in BuildConfigs :
         call = [fn |-> "build_command", task |-> task, hosts |-> hosts,
                 config |-> config, results |-> << >>]

ApplyBuild ==
    /\ call.fn = "build_command"
    /\ Len(call.results) < 2
    /\ \E normal \in Orders((DOMAIN call.config) \ command_to_config_keys),
          special \in Orders((DOMAIN call.config) \cap command_to_config_keys) :
         call' = [call EXCEPT !.results =
                     Append(@, command_from(call.task, call.hosts, call.config,
                                            normal, special))]
    /\ UNCHANGED unitVars

SpecBuild == InitBuild /\ [][ApplyBuild]_vars

\* ======================================================== properties
Finished(c) == cpc[c] \in {"idle", "redirected", "form_invalid", "done"}
Rejected(c) == cpc[c] \in {"redirected", "form_invalid"}
DeploymentsOf(t) == {d \in 1..Len(deployments) : deployments[d].task = t}
IsFinishedChunk(ch) == ch.id = "finished"
FinishedChunks(r) == {i \in 1..Len(chunks[r]) : IsFinishedChunk(chunks[r][i])}

\* What the task's fab run prints and returns once it is spawned and read to
\* end-of-stream: `deploy` prints two lines and exits 0, any other task prints
\* one line and exits 1.
process_stdout(t) == IF t = "deploy" THEN <<"line 1", "line 2">> ELSE <<"line 1">>
process_returncode(t) == IF t = "deploy" THEN 0 ELSE 1
LineChunks(lines) == [i \in 1..Len(lines) |-> OutputChunk(lines[i])]

\* C3: when the task of a deployment is absent from the catalog lookup made at
\* execution start, the deployment's persisted status has gone from PENDING
\* to FAILED once the stream has ended, and no subprocess was spawned for it.
C3_TaskMissingFails ==
    \A r \in StreamReqs :
        (spc[r] = "closed" /\ sself[r].path = "return")
            => /\ deployments[sself[r].pk].status = FAILED
               /\ spawned[sself[r].pk] = 0

\* C4: when building the command (or spawning, or reading) raised, the stream
\* carries exactly one diagnostic output line followed by the terminal-failure
\* sentinel, and the deployment has ended in FAILED status.
C4_ErrorEndsFailed ==
    \A r \in StreamReqs :
        (spc[r] = "closed" /\ sself[r].path = "except")
            => /\ Len(chunks[r]) = 2
               /\ chunks[r][1].id = "output"
               /\ chunks[r][2] = FinishedChunk("failed")
               /\ deployments[sself[r].pk].status = FAILED

\* C6: for a task in the catalog whose run prints N lines and exits 0, the
\* listener has received, when the stream ends, exactly the N output chunks in
\* order followed by one SUCCESS sentinel, and the stored output is the
\* concatenation of the N lines.
C6_ScenarioD ==
    \A r \in StreamReqs :
        (/\ spc[r] = "closed"
         /\ sself[r].path # "return"
         /\ process_returncode(sself[r].task) = 0)
            => /\ chunks[r] = LineChunks(process_stdout(sself[r].task))
                                \o <<FinishedChunk(SUCCESS)>>
               /\ deployments[sself[r].pk].output =
                     [null |-> FALSE, text |-> process_stdout(sself[r].task)]

\* C7: every output stream that has ended, on every execution path, holds
\* exactly one sentinel chunk, which is its last chunk and carries the terminal
\* status (SUCCESS, FAILED, or failed on internal error).
C7_StreamEndsWithSentinel ==
    \A r \in StreamReqs :
        spc[r] = "closed"
            => /\ Len(chunks[r]) >= 1
               /\ FinishedChunks(r) = {Len(chunks[r])}
               /\ chunks[r][Len(chunks[r])].text \in {SUCCESS, FAILED, "failed"}

\* C8: once no creation is in progress, a task that n >= 1 creations were
\* accepted for exists with its description and has times_used exactly n - 1
\* above the value it was created with: no increment is lost, whatever the
\* interleaving of the creations.
C8_NoLostUpdates ==
    (\A c \in AllCreates : Finished(c))
        => \A t \in TaskNames :
              LET n == Cardinality(DeploymentsOf(t)) IN
              IF n = 0 THEN ~tasks[t].present
              ELSE /\ tasks[t].present
                   /\ tasks[t].description = Docstring(t)
                   /\ tasks[t].times_used = TimesUsedDefault + (n - 1)

\* C9: a creation request that was rejected, because the task is not in the
\* catalog or because a prompted value is missing, has written no Deployment,
\* no Task and no session value.
C9_RejectedWritesNothing ==
    \A c \in AllCreates : Rejected(c) => writes[c] = 0

\* one request rejected for its task, one for a missing prompted value, while
\* nothing has been written
C9_Witness ==
    /\ \E c \in AllCreates : cpc[c] = "redirected"
    /\ \E c \in AllCreates : cpc[c] = "form_invalid"
    /\ deployments = << >>
    /\ \A t \in TaskNames : ~tasks[t].present
    /\ \A s \in Sessions : ~session[s].set

\* C10: in the configuration merged by build_command, for every key, the
\* prompted value of the session wins if there is one, else the stage-level
\* value if there is one, else the project-level value.
Stored(conf, k) == conf[k].present /\ ~conf[k].prompt_me_for_input
C10_Precedence ==
    [][\A r \in StreamReqs :
          (spc[r] = "try" /\ spc'[r] # "try" /\ sself'[r].merged)
            => LET config == sself'[r].config
                   prompted == session[sself[r].session].values
               IN \A k \in Keys :
                    /\ k \in DOMAIN prompted
                          => k \in DOMAIN config /\ config[k] = prompted[k]
                    /\ (k \notin DOMAIN prompted /\ Stored(stage_conf, k))
                          => k \in DOMAIN config /\ config[k] = stage_conf[k].value
                    /\ (/\ k \notin DOMAIN prompted
                        /\ ~Stored(stage_conf, k)
                        /\ Stored(project_conf, k))
                          => k \in DOMAIN config /\ config[k] = project_conf[k].value
                    /\ (/\ k \notin DOMAIN prompted
                        /\ ~Stored(stage_conf, k)
                        /\ ~Stored(project_conf, k))
                          => k \notin DOMAIN config]_vars

\* a key stored at project and at stage level and prompted as well: the merged
\* configuration holds the prompted value
C10_Witness ==
    \E r \in StreamReqs, k \in Keys :
        /\ spc[r] = "except" /\ sself[r].merged
        /\ Stored(project_conf, k) /\ Stored(stage_conf, k)
        /\ k \in DOMAIN session[sself[r].session].values
        /\ sself[r].config[k] = session[sself[r].session].values[k]
        /\ sself[r].config[k] \in PromptValues

\* C14: whatever creations and output-stream requests of the session
\* interleave, when the command of a deployment whose creation has returned is
\* built, the prompted values in its configuration are exactly the values
\* submitted with the creation of that deployment: every key submitted with it
\* has its submitted value, and no prompted value of another creation is there.
Created(pk) == \A c \in AllCreates : cself[c].pk # pk
C14_OwnPromptedValues ==
    [][\A r \in StreamReqs :
          (/\ spc[r] = "try" /\ spc'[r] # "try" /\ sself'[r].merged
           /\ Created(sself[r].pk))
            => LET config == sself'[r].config
                   own == deployments[sself[r].pk].prompted
               IN /\ \A k \in DOMAIN own :
                        k \in DOMAIN config /\ config[k] = own[k]
                  /\ \A k \in DOMAIN config :
                        config[k] \in PromptValues
                            => k \in DOMAIN own /\ config[k] = own[k]]_vars

\* C13: for every key and every boolean, number or string value,
\* get_key_value_string does not raise and yields the bare key for true, `key=`
\* for false, `key=` and the unquoted number for a number, and for a string
\* `key=` and the string with a backslash put before every double quote.
IsQuote(text, i) == text[i] = "\""
\* the backslashes put before a quote
Escapes(text) == {i \in 1..Len(text) - 1 : text[i] = "\\" /\ IsQuote(text, i + 1)}
\* the text without the characters at the positions in `drop`
RECURSIVE Without(_, _, _)
Without(text, drop, i) ==
    IF i > Len(text) THEN << >>
    ELSE (IF i \in drop THEN << >> ELSE <<text[i]>>) \o Without(text, drop, i + 1)
\* the number a text of digits with one point stands for, in tenths
RECURSIVE Number(_)
Number(digits) ==
    IF digits = << >> THEN 0
    ELSE LET last == digits[Len(digits)]
             d == CHOOSE n \in 0..9 : DigitChars[n + 1] = last
         IN 10 * Number(SubSeq(digits, 1, Len(digits) - 1)) + d
C11_Deterministic ==
    (call.fn = "build_command" /\ Len(call.results) = 2)
        => /\ ~call.results[1].raised
           /\ ~call.results[2].raised
           /\ call.results[1].command = call.results[2].command

\* C12: the command built for a merged configuration holds every key exactly
\* once: one `--<dashed-flag>[=value]` argument for each key on the
\* special-option list, and the other keys in one single `--set=<comma-joined>`
\* argument, which is absent when there is no such key.
IsSetArgument(arg) == arg # << >> /\ arg[1] \in {"--set=", "--set"}
C12_EveryKeyOnce ==
    (call.fn = "build_command")
        => \A n \in 1..Len(call.results) :
              LET result == call.results[n]
                  items == result.command.items
                  config == call.config
                  normal == (DOMAIN config) \ command_to_config_keys
                  special == (DOMAIN config) \cap command_to_config_keys
                  sets == {i \in 1..Len(items) : IsSetArgument(items[i])}
              IN /\ ~result.raised
                 /\ result.command.type = "list"
                 /\ \A k \in special :
                       Cardinality({i \in 1..Len(items) :
                           items[i] = <<"--">> \o get_key_value_string(
                                         command_to_config(k), config[k]).text}) = 1
                 /\ normal = {} => sets = {}
                 /\ normal # {} =>
                       /\ Cardinality(sets) = 1
                       /\ \A i \in sets : \E q \in Orders(normal) :
                             items[i] = <<"--set=">> \o
                                join([j \in DOMAIN q |->
                                        get_key_value_string(q[j], config[q[j]]).text])

====
